---- MODULE Spec2Model ----
(***************************************************************************)
(* Model of the dependency-provider engines of the `dep` package.         *)
(*                                                                         *)
(*   _dep.py  the generator engine: dep() wraps a two-phase generator in  *)
(*            a (async)contextmanager; resolution walks a per-task        *)
(*            context stack; the cache entry is popped after teardown.    *)
(*   dep.py   the handle engine: dep() returns a _SyncContextManager or   *)
(*            _AsyncContextManager handle; resolution reads the global    *)
(*            _overrides table; nothing ever pops a cache entry.          *)
(*   override.py  override(mapping): _overrides.update + _cache.clear.    *)
(*                                                                         *)
(* Function identity matters for resolution: both engines look up the     *)
(* undecorated function captured by the wrapper, while callers hold the   *)
(* wrapper that dep() returned.                                            *)
(*                                                                         *)
(* A task is one caller holding at most one acquisition at a time.  A     *)
(* synchronous provider runs call-to-yield and exit-to-return as one      *)
(* step; an asynchronous provider may suspend inside setup and inside     *)
(* teardown, so those are separate steps that interleave with other       *)
(* tasks.                                                                  *)
(***************************************************************************)
EXTENDS Integers, Sequences, FiniteSets, TLC

\* ------------------------------------------------------------------ bounds
NumTasks == 2
MaxCalls == 2
MaxOverrides == 2
MaxCtxDepth == 1
MaxNesting == 2

Tasks == 1..NumTasks

\* ------------------------------------------------------- declared providers
\* Each provider is one decorated generator function.  Its attributes are
\* fixed at decoration time: which engine decorated it, whether the function
\* is an async generator, and the `cached` flag given to dep().
Engines == {"gen", "handle"}

Providers == {"get_async_value", "get_value_no_cache", "get_foo", "get_async_foo"}

Engine(p) == IF p \in {"get_foo", "get_async_foo"} THEN "handle" ELSE "gen"

IsAsync(p) == p \in {"get_async_value", "get_async_foo"}

Cached(p) == p \in {"get_async_value", "get_foo"}

\* Callable identities.  dep() returns a NEW function object (the wrapper);
\* the wrapper's closure variable `func` is the undecorated function.
Raw(p) == <<"func", p>>

Wrapper(p) == <<"wrapper", p>>

\* Undecorated two-phase functions used as replacement implementations.
Replacements == {<<"func", "new_get_foo">>, <<"func", "new_get_bar">>}

\* ------------------------------------------------------------- call inputs
\* Keyword arguments in the order the caller wrote them: <<name, value>>.
KwCalls == { << <<"a", 1>>, <<"b", 2>> >>, << <<"b", 2>>, <<"a", 1>> >> }

NameOrd(n) == IF n = "a" THEN 1 ELSE 2

RECURSIVE InsertKw(_, _)
InsertKw(pair, s) ==
    IF s = <<>> THEN <<pair>>
    ELSE IF NameOrd(pair[1]) <= NameOrd(Head(s)[1]) THEN <<pair>> \o s
         ELSE <<Head(s)>> \o InsertKw(pair, Tail(s))

RECURSIVE SortKw(_)
SortKw(s) == IF s = <<>> THEN <<>> ELSE InsertKw(Head(s), SortKw(Tail(s)))

\* Faulty variant of cache_key_func: json.dumps without sort_keys.
cache_key_func_unsorted(kw) == <<"json", kw>>

\* json.dumps({"args": args, "kwargs": kwargs}, sort_keys=True)
cache_key_func(kw) == <<"json", SortKw(kw)>>

\* f"{id(target_func)}:{cache_key_func(*args, **kwargs)}"
GenKey(target, kw) == <<target, cache_key_func(kw)>>

\* (target_func, args, tuple(sorted(kwargs.items())))
HandleKey(target, kw) == <<target, <<>>, SortKw(kw)>>

\* Faulty variant of CacheKey: the key is built before resolution, from the
\* provider's own function.
CacheKeyUnresolved(p, target, kw) ==
    IF Engine(p) = "gen" THEN GenKey(Raw(p), kw) ELSE HandleKey(Raw(p), kw)

CacheKey(p, target, kw) == IF Engine(p) = "gen" THEN GenKey(target, kw) ELSE HandleKey(target, kw)

\* The mapping a provider's setup phase computes from its arguments.
ArgsOf(kw) == SortKw(kw)

EmptyMap == [x \in {} |-> x]

\* Inputs of override(): mappings from a callable to a replacement.  The
\* caller can name a provider by the decorated function (as override.py's
\* test does) or by the undecorated one.
OverrideMappings ==
    { Wrapper("get_foo") :> <<"func", "new_get_foo">>,
      Raw("get_foo") :> <<"func", "new_get_foo">>,
      (Raw("get_foo") :> <<"func", "new_get_bar">>) @@ (Raw("get_async_foo") :> <<"func", "new_get_foo">>) }

\* Inputs of context(): overrides pushed on the calling task's stack.
ContextMappings == { Raw("get_async_value") :> <<"func", "new_get_bar">> }

\* Inputs of context() for nested blocks: two mappings that both replace
\* the same provider, and one keyed by the decorated function, which is how
\* _dep.py's test_async_context names the provider.
NestedContextMappings ==
    ContextMappings \cup
        { Raw("get_async_value") :> <<"func", "new_get_foo">>,
          Wrapper("get_async_value") :> <<"func", "new_get_bar">> }

SetupOutcomes == {"yield", "noyield", "raise"}

TeardownOutcomes == {"complete", "raise", "yieldagain"}

ExitKinds == {"return", "raise", "cancel"}

\* -------------------------------------------------------------------- state
VARIABLES
    cache,      \* cache[e]: the module-level _cache dict of engine e
    overrides,  \* the module-level _overrides dict
    ctxStack,   \* ctxStack[t]: value of the _context_stack ContextVar in task t
    inv,        \* inv[t]: the acquisition task t is in the middle of
    last,       \* the acquisition that finished most recently and how it ended
    resLog,     \* one record per value a setup phase produced, in order
    calls,      \* number of provider calls made so far
    lastOv      \* the most recent override() call: its mapping, whether it replaced
                \* or left alone existing entries, and which caches held entries

vars == <<cache, overrides, ctxStack, inv, last, resLog, calls, lastOv>>

NoFunc == <<"none", "none">>

NoVal == [res |-> 0, impl |-> NoFunc, args |-> <<>>]

\* kw: the keyword arguments as the caller wrote them.  gen: this acquisition
\* holds the provider's generator (it ran setup and owns the teardown); a
\* cache hit has gen = FALSE.
IdleInv ==
    [pc |-> "idle", prov |-> "none", kw |-> <<>>, args |-> <<>>, target |-> NoFunc,
     key |-> <<>>, val |-> NoVal, gen |-> FALSE, exitKind |-> "none"]

NoLast ==
    [prov |-> "none", key |-> <<>>, res |-> 0, gen |-> FALSE, setupOut |-> "none",
     exitKind |-> "none", tdOut |-> "none", result |-> "none"]

Init ==
    /\ cache = [e \in Engines |-> EmptyMap]
    /\ overrides = EmptyMap
    /\ ctxStack = [t \in Tasks |-> <<>>]
    /\ inv = [t \in Tasks |-> IdleInv]
    /\ last = NoLast
    /\ resLog = <<>>
    /\ calls = 0
    /\ lastOv = [n |-> 0, mapping |-> EmptyMap, overwrote |-> FALSE, kept |-> FALSE, cleared |-> {}]

\* ---------------------------------------------------------------- resolution
\* _resolve_function: walk the context stack from top to bottom, return the
\* first override found, else the function itself.
RECURSIVE resolve_function(_, _)
resolve_function(stack, func) ==
    IF stack = <<>> THEN func
    ELSE LET top == stack[Len(stack)]
         IN IF func \in DOMAIN top THEN top[func]
            ELSE resolve_function(SubSeq(stack, 1, Len(stack) - 1), func)

\* _overrides.get(func, func)
OverridesGet(ov, func) == IF func \in DOMAIN ov THEN ov[func] ELSE func

\* target_func: the generator engine resolves through the context stack, the
\* handle engine through _overrides; both look up the closure variable `func`.
Resolve(t, p) ==
    IF Engine(p) = "gen" THEN resolve_function(ctxStack[t], Raw(p))
    ELSE OverridesGet(overrides, Raw(p))

\* ------------------------------------------------------------ cache store
\* Faulty variant of CacheHit: the `cached` test inverted.
CacheHitInverted(c, p, key) == ~Cached(p) /\ key \in DOMAIN c[Engine(p)]

\* `cached and cache_key in _cache`
CacheHit(c, p, key) == Cached(p) /\ key \in DOMAIN c[Engine(p)]

MapPut(m, k, v) == [x \in DOMAIN m \cup {k} |-> IF x = k THEN v ELSE m[x]]

MapPop(m, k) == [x \in DOMAIN m \ {k} |-> m[x]]

\* Faulty variant of StoreResult: the value is stored whatever `cached` says.
StoreResultAlways(c, p, key, v) == [c EXCEPT ![Engine(p)] = MapPut(@, key, v)]

\* Faulty variant of StoreResult: an entry already under the key is kept.
StoreResultIfAbsent(c, p, key, v) ==
    IF Cached(p) /\ key \notin DOMAIN c[Engine(p)]
    THEN [c EXCEPT ![Engine(p)] = MapPut(@, key, v)] ELSE c

\* `if cached: _cache[cache_key] = result`
StoreResult(c, p, key, v) ==
    IF Cached(p) THEN [c EXCEPT ![Engine(p)] = MapPut(@, key, v)] ELSE c

\* Faulty variant of ReleaseEntry: a cache hit pops the key on exit as well.
ReleaseEntryAlways(c, p, key, gen) ==
    IF Engine(p) = "gen" /\ Cached(p) THEN [c EXCEPT !["gen"] = MapPop(@, key)] ELSE c

\* What scope exit does to the cache.  Generator engine: an acquisition
\* that ran setup reaches `if cached: _cache.pop(cache_key, None)` in the
\* inner finally; a cache hit returns right after its yield.  Handle engine:
\* __exit__/__aexit__ never touch _cache.
ReleaseEntry(c, p, key, gen) ==
    IF gen /\ Engine(p) = "gen" /\ Cached(p) THEN [c EXCEPT !["gen"] = MapPop(@, key)] ELSE c

\* Faulty variant of OverridesUpdate: an entry already in the table wins.
OverridesSetDefault(ov, m) ==
    [k \in DOMAIN ov \cup DOMAIN m |-> IF k \in DOMAIN ov THEN ov[k] ELSE m[k]]

\* _overrides.update(mapping)
OverridesUpdate(ov, m) ==
    [k \in DOMAIN ov \cup DOMAIN m |-> IF k \in DOMAIN m THEN m[k] ELSE ov[k]]

\* _cache.clear()
CacheClear(c) == [e \in Engines |-> EmptyMap]

\* ------------------------------------------------------------ invocation
\* Faulty variant of BlockResult: the exit swallows the consumer's failure.
BlockResultSwallowed(kind, tdOut) == IF tdOut = "raise" THEN "TeardownError" ELSE "returned"

\* What leaves the caller's block.  An exception raised by the teardown in
\* the finally clause (or in __exit__) replaces the one in flight; a second
\* yield makes next() return normally and is not reported.
BlockResult(kind, tdOut) ==
    IF tdOut = "raise" THEN "TeardownError"
    ELSE IF kind = "return" THEN "returned"
    ELSE IF kind = "raise" THEN "ConsumerError"
    ELSE "Cancelled"

\* Faulty variant of EvictFailure: pop without a default raises KeyError when
\* the key is absent.
EvictFailureNoDefault(c, p, key, gen) ==
    IF gen /\ Engine(p) = "gen" /\ Cached(p) /\ key \notin DOMAIN c["gen"]
    THEN "KeyError" ELSE "none"

\* What the eviction step raises.  `_cache.pop(cache_key, None)` has a
\* default, so an absent key is not an error; the handle engine has no
\* eviction step.
EvictFailure(c, p, key, gen) == "none"

\* What leaves the block of an acquisition that ran setup: a failure of the
\* eviction step in the inner finally would replace whatever was in flight.
ExitResult(c, rec, tdOut) ==
    IF EvictFailure(c, rec.prov, rec.key, rec.gen) # "none"
    THEN EvictFailure(c, rec.prov, rec.key, rec.gen)
    ELSE BlockResult(rec.exitKind, tdOut)

Finished(rec, setupOut, tdOut, result) ==
    [prov |-> rec.prov, key |-> rec.key, res |-> rec.val.res, gen |-> rec.gen,
     setupOut |-> setupOut, exitKind |-> rec.exitKind, tdOut |-> tdOut, result |-> result]

\* Faulty variant of SetupFailure: StopIteration is not caught.
SetupFailureUncaught(out) == IF out = "noyield" THEN "StopIteration" ELSE "SetupError"

\* What a setup phase that produced no value makes the call raise:
\* StopIteration / StopAsyncIteration is turned into RuntimeError, any other
\* exception propagates as it is.
SetupFailure(out) == IF out = "noyield" THEN "RuntimeError" ELSE "SetupError"

\* Faulty variant of SetupFinish: the key is entered in the cache before the
\* setup phase has produced its value and stays there when it fails.
SetupFinishStoresEarly(t, rec, out) ==
    IF out = "yield"
    THEN LET v == [res |-> Len(resLog) + 1, impl |-> rec.target, args |-> rec.args]
         IN /\ resLog' = Append(resLog, [prov |-> rec.prov, td |-> 0])
            /\ cache' = StoreResult(cache, rec.prov, rec.key, v)
            /\ inv' = [inv EXCEPT ![t] = [rec EXCEPT !.pc = "active", !.val = v, !.gen = TRUE]]
            /\ UNCHANGED last
    ELSE /\ inv' = [inv EXCEPT ![t] = IdleInv]
         /\ last' = Finished(rec, out, "none", SetupFailure(out))
         /\ cache' = StoreResult(cache, rec.prov, rec.key, NoVal)
         /\ UNCHANGED resLog

\* The setup phase of rec.target ends with outcome `out`: a value is
\* yielded (stored if cached, then handed to the caller), or the generator
\* ends without yielding (RuntimeError), or it raises.
SetupFinish(t, rec, out) ==
    IF out = "yield"
    THEN LET v == [res |-> Len(resLog) + 1, impl |-> rec.target, args |-> rec.args]
         IN /\ resLog' = Append(resLog, [prov |-> rec.prov, td |-> 0])
            /\ cache' = StoreResult(cache, rec.prov, rec.key, v)
            /\ inv' = [inv EXCEPT ![t] = [rec EXCEPT !.pc = "active", !.val = v, !.gen = TRUE]]
            /\ UNCHANGED last
    ELSE /\ inv' = [inv EXCEPT ![t] = IdleInv]
         /\ last' = Finished(rec, out, "none", SetupFailure(out))
         /\ UNCHANGED <<cache, resLog>>

\* The wrapper is called: resolve, build the key, check the cache, and on a
\* miss start the setup phase (which an async provider may suspend in).
Call(t, p, kw) ==
    /\ inv[t].pc = "idle"
    /\ calls < MaxCalls
    /\ calls' = calls + 1
    /\ LET target == Resolve(t, p)
           key == CacheKey(p, target, kw)
           rec == [IdleInv EXCEPT !.prov = p, !.kw = kw, !.args = ArgsOf(kw),
                                   !.target = target, !.key = key]
       IN IF CacheHit(cache, p, key)
          THEN /\ inv' = [inv EXCEPT ![t] = [rec EXCEPT !.pc = "active",
                                                         !.val = cache[Engine(p)][key]]]
               /\ UNCHANGED <<cache, resLog, last>>
          ELSE IF IsAsync(p)
               THEN /\ inv' = [inv EXCEPT ![t] = [rec EXCEPT !.pc = "setup"]]
                    /\ UNCHANGED <<cache, resLog, last>>
               ELSE \E out \in SetupOutcomes : SetupFinish(t, rec, out)
    /\ UNCHANGED <<overrides, ctxStack, lastOv>>

\* An async provider's suspended setup phase finishes.
SetupDone(t) ==
    /\ inv[t].pc = "setup"
    /\ \E out \in SetupOutcomes : SetupFinish(t, inv[t], out)
    /\ UNCHANGED <<overrides, ctxStack, calls, lastOv>>

\* Faulty variant of MarkTeardown: the generator is never resumed on exit.
MarkTeardownSkipped(log, r) == log

\* next(result_gen) / __anext__() on scope exit: the teardown of resource r
\* is resumed.
MarkTeardown(log, r) == [log EXCEPT ![r].td = @ + 1]

\* Faulty variant of TeardownFinish: the pop follows the teardown instead of
\* sitting in a finally clause, so a raising teardown skips it.
TeardownFinishPopAfter(t, rec, log, tdOut) ==
    /\ resLog' = log
    /\ cache' = IF tdOut = "raise" THEN cache ELSE ReleaseEntry(cache, rec.prov, rec.key, rec.gen)
    /\ inv' = [inv EXCEPT ![t] = IdleInv]
    /\ last' = Finished(rec, "yield", tdOut, ExitResult(cache, rec, tdOut))

\* The resumed teardown ends with outcome `tdOut`; log is resLog with the
\* resumption already counted.
TeardownFinish(t, rec, log, tdOut) ==
    /\ resLog' = log
    /\ cache' = ReleaseEntry(cache, rec.prov, rec.key, rec.gen)
    /\ inv' = [inv EXCEPT ![t] = IdleInv]
    /\ last' = Finished(rec, "yield", tdOut, ExitResult(cache, rec, tdOut))

\* The caller's block is left (normally, by a raised failure, or cancelled).
\* Without a generator (cache hit) nothing else happens; with one, its
\* teardown is resumed, which an async provider may suspend in.
Exit(t, kind) ==
    /\ inv[t].pc = "active"
    /\ LET rec == [inv[t] EXCEPT !.exitKind = kind]
       IN IF ~rec.gen
          THEN /\ inv' = [inv EXCEPT ![t] = IdleInv]
               /\ last' = Finished(rec, "none", "none", BlockResult(kind, "none"))
               /\ cache' = ReleaseEntry(cache, rec.prov, rec.key, rec.gen)
               /\ UNCHANGED resLog
          ELSE IF IsAsync(rec.prov)
               THEN /\ inv' = [inv EXCEPT ![t] = [rec EXCEPT !.pc = "teardown"]]
                    /\ resLog' = MarkTeardown(resLog, rec.val.res)
                    /\ UNCHANGED <<cache, last>>
               ELSE \E tdOut \in TeardownOutcomes :
                        TeardownFinish(t, rec, MarkTeardown(resLog, rec.val.res), tdOut)
    /\ UNCHANGED <<overrides, ctxStack, calls, lastOv>>

\* An async provider's suspended teardown finishes.
TeardownDone(t) ==
    /\ inv[t].pc = "teardown"
    /\ \E tdOut \in TeardownOutcomes : TeardownFinish(t, inv[t], resLog, tdOut)
    /\ UNCHANGED <<overrides, ctxStack, calls, lastOv>>

\* override(mapping).  override.py takes `_overrides` and `_cache` from the
\* module dep._dep; `_overrides` is defined by the handle engine only and
\* `_cache` by both engines, so the table is the handle engine's and the
\* clear empties the cache of either engine.
Override(m) ==
    /\ lastOv.n < MaxOverrides
    /\ overrides' = OverridesUpdate(overrides, m)
    /\ cache' = CacheClear(cache)
    /\ lastOv' = [n |-> lastOv.n + 1, mapping |-> m,
                  overwrote |-> \E k \in DOMAIN m \cap DOMAIN overrides : overrides[k] # m[k],
                  kept |-> DOMAIN overrides \ DOMAIN m # {},
                  cleared |-> {e \in Engines : DOMAIN cache[e] # {}}]
    /\ UNCHANGED <<ctxStack, inv, last, resLog, calls>>

\* context.__enter__ / __aenter__, written around the task's provider calls
ContextEnter(t, m) ==
    /\ inv[t].pc = "idle"
    /\ Len(ctxStack[t]) < MaxCtxDepth
    /\ ctxStack' = [ctxStack EXCEPT ![t] = Append(@, m)]
    /\ UNCHANGED <<cache, overrides, inv, last, resLog, calls, lastOv>>

\* context.__exit__ / __aexit__: reset the ContextVar to the token's old value
ContextExit(t) ==
    /\ inv[t].pc = "idle"
    /\ Len(ctxStack[t]) > 0
    /\ ctxStack' = [ctxStack EXCEPT ![t] = SubSeq(@, 1, Len(@) - 1)]
    /\ UNCHANGED <<cache, overrides, inv, last, resLog, calls, lastOv>>

Next ==
    \/ \E t \in Tasks, p \in Providers, kw \in KwCalls : Call(t, p, kw)
    \/ \E t \in Tasks : SetupDone(t)
    \/ \E t \in Tasks, kind \in ExitKinds : Exit(t, kind)
    \/ \E t \in Tasks : TeardownDone(t)
    \/ \E m \in OverrideMappings : Override(m)
    \/ \E t \in Tasks, m \in ContextMappings : ContextEnter(t, m)
    \/ \E t \in Tasks : ContextExit(t)

Spec == Init /\ [][Next]_vars

\* ------------------------------------------------- nested context blocks
\* The generator engine alone, with context blocks nested inside each other.
GenProviders == {p \in Providers : Engine(p) = "gen"}

\* context.__enter__ / __aenter__ inside another context block
NestedContextEnter(t, m) ==
    /\ inv[t].pc = "idle"
    /\ Len(ctxStack[t]) < MaxNesting
    /\ ctxStack' = [ctxStack EXCEPT ![t] = Append(@, m)]
    /\ UNCHANGED <<cache, overrides, inv, last, resLog, calls, lastOv>>

NextCtx ==
    \/ \E t \in Tasks, p \in GenProviders, kw \in KwCalls : Call(t, p, kw)
    \/ \E t \in Tasks : SetupDone(t)
    \/ \E t \in Tasks, kind \in ExitKinds : Exit(t, kind)
    \/ \E t \in Tasks : TeardownDone(t)
    \/ \E t \in Tasks, m \in NestedContextMappings : NestedContextEnter(t, m)
    \/ \E t \in Tasks : ContextExit(t)

SpecCtx == Init /\ [][NextCtx]_vars

\* =================================================================== claims
Resources == 1..Len(resLog)

\* The acquisition that ran the setup of resource r is still inside its block.
HeldBy(t, r) == inv[t].pc = "active" /\ inv[t].gen /\ inv[t].val.res = r

CachedValues == UNION { { cache[e][k] : k \in DOMAIN cache[e] } : e \in Engines }

\* C1: every value a setup phase produced has had its teardown resumed
\* exactly once as soon as the acquisition that produced it has left its
\* block (by return, failure or cancellation) and not before; no teardown is
\* ever resumed twice, and an acquisition served from the cache resumes none.
C1_TeardownExactlyOnce ==
    \A r \in Resources :
        IF \E t \in Tasks : HeldBy(t, r) THEN resLog[r].td = 0 ELSE resLog[r].td = 1

\* C1 witness: two setups succeeded; the acquisition that finished last left
\* its block through a failure and its teardown has run once.
C1_Witness ==
    /\ Len(resLog) = 2
    /\ last.gen /\ last.exitKind \in {"raise", "cancel"}
    /\ resLog[last.res].td = 1

\* C2: every value in a cache belongs to a resource whose teardown has not
\* been resumed.
C2_CachedValuesAreLive ==
    \A v \in CachedValues : resLog[v.res].td = 0

\* C3: once an acquisition of a cached handle-engine provider that ran setup
\* has left its block, the entry it stored is no longer in the cache.
C3_HandleEntryGoneAfterExit ==
    (last.gen /\ Engine(last.prov) = "handle" /\ Cached(last.prov))
        => ~(last.key \in DOMAIN cache["handle"] /\ cache["handle"][last.key].res = last.res)

\* Task t's call of a provider wrapper in this step did not fail at once.
CallStep(t) == calls' = calls + 1 /\ inv[t].pc = "idle" /\ inv'[t].pc # "idle"

\* C4: once override() has registered a replacement for the provider the
\* caller names (the decorated function it calls, as in override.py's test),
\* every later call of that provider resolves to the replacement and is
\* handed only values the replacement produced.
C4_OverrideTakesEffect ==
    [][\A t \in Tasks :
        (CallStep(t) /\ Wrapper(inv'[t].prov) \in DOMAIN overrides)
            => /\ inv'[t].target = overrides[Wrapper(inv'[t].prov)]
               /\ (inv'[t].pc = "active" => inv'[t].val.impl = overrides[Wrapper(inv'[t].prov)])]_vars

SameRequest(i, rec) ==
    /\ inv[i].pc = "active" /\ inv[i].gen /\ Cached(inv[i].prov)
    /\ Cached(rec.prov) /\ Engine(rec.prov) = Engine(inv[i].prov)
    /\ rec.target = inv[i].target /\ rec.args = inv[i].args

Served(i, j) ==
    /\ inv'[j].pc = "active" /\ ~inv'[j].gen
    /\ inv'[j].val = inv[i].val
    /\ resLog' = resLog

EntryStored(i) ==
    /\ inv[i].key \in DOMAIN cache[Engine(inv[i].prov)]
    /\ cache[Engine(inv[i].prov)][inv[i].key] = inv[i].val

C7_HitLeavesEverythingAlone ==
    [][\A t \in Tasks :
        /\ (CallStep(t) /\ CacheHit(cache, inv'[t].prov, inv'[t].key))
              => /\ inv'[t].pc = "active" /\ ~inv'[t].gen
                 /\ inv'[t].val = cache[Engine(inv'[t].prov)][inv'[t].key]
                 /\ resLog' = resLog /\ cache' = cache
        /\ (inv[t].pc = "active" /\ ~inv[t].gen /\ inv'[t].pc # "active")
              => /\ inv'[t].pc = "idle"
                 /\ resLog' = resLog /\ cache' = cache]_vars

\* C7 witness: an acquisition served from the cache has left its block while
\* the acquisition that produced the value is still active and its entry is
\* still stored.
C7_Witness ==
    /\ ~last.gen /\ last.res # 0 /\ last.exitKind # "none"
    /\ \E t \in Tasks : HeldBy(t, last.res) /\ EntryStored(t)

ConsumerFailure(kind) == IF kind = "raise" THEN "ConsumerError" ELSE "Cancelled"

FailedInBlock == Engine(last.prov) = "gen" /\ last.exitKind \in {"raise", "cancel"}

CleanedUp ==
    /\ last.gen => resLog[last.res].td = 1
    /\ (last.gen /\ Cached(last.prov))
          => ~(last.key \in DOMAIN cache["gen"] /\ cache["gen"][last.key].res = last.res)

SetupFailedStep ==
    \/ calls' = calls + 1 /\ inv' = inv
    \/ \E t \in Tasks : inv[t].pc = "setup" /\ inv'[t].pc = "idle"

\* C9: a setup phase that ends without yielding makes the call raise
\* RuntimeError; the block is not entered, nothing is stored in a cache and no
\* teardown is resumed.
C9_NoYieldIsRuntimeError ==
    [][(SetupFailedStep /\ last'.setupOut = "noyield") =>
        /\ last'.result = "RuntimeError"
        /\ last'.exitKind = "none" /\ last'.res = 0
        /\ \A t \in Tasks : inv'[t].pc = "active" => inv[t].pc = "active"
        /\ cache' = cache /\ resLog' = resLog]_vars

\* C9 witness: a call has just failed that way.
C9_Witness == last.setupOut = "noyield" /\ last.result = "RuntimeError" /\ calls > 0

\* Task t takes a step of an acquisition of provider p.
StepOf(t, p) == inv'[t] # inv[t] /\ (inv[t].prov = p \/ inv'[t].prov = p)

\* C10: an acquisition of a provider decorated with cached=False is always
\* handed a value its own setup just produced, its teardown has run once when
\* it has left the block, and none of its steps changes a cache.
C10_UncachedBypassesCache ==
    [][\A p \in Providers : ~Cached(p) =>
        /\ \A t \in Tasks :
              StepOf(t, p) =>
                 /\ cache' = cache
                 /\ (inv'[t].pc = "active" /\ inv[t].pc # "active")
                       => (inv'[t].gen /\ inv'[t].val.res = Len(resLog') /\ Len(resLog') = Len(resLog) + 1)
        /\ (calls' = calls + 1 /\ inv' = inv /\ last'.prov = p) => cache' = cache
        /\ (last' # last /\ last'.prov = p /\ last'.exitKind # "none")
              => (last'.gen /\ resLog'[last'.res].td = 1)]_vars

\* C10 witness: two calls of the same uncached provider, one after the
\* other, ran setup twice and teardown twice.
C10_Witness ==
    /\ Len(resLog) = 2
    /\ \A r \in Resources : ~Cached(resLog[r].prov) /\ resLog[r].prov = resLog[1].prov /\ resLog[r].td = 1
    /\ \A t \in Tasks : inv[t].pc = "idle"

\* The context blocks of task t's stack that name callable f, by position.
Enclosing(t, f) == {i \in 1..Len(ctxStack[t]) : f \in DOMAIN ctxStack[t][i]}

Innermost(S) == CHOOSE i \in S : \A j \in S : j <= i

\* C11: a call of generator-engine provider P made inside context blocks
\* that name P (the decorated function the caller calls, as in
\* test_async_context) runs the replacement given by the innermost of them,
\* and a call made outside every such block runs the original P.  (Blocks
\* keyed by the undecorated function are left out of this statement.)
C11_ContextOverrideTakesEffect ==
    [][\A t \in Tasks :
        (CallStep(t) /\ Engine(inv'[t].prov) = "gen" /\ Enclosing(t, Raw(inv'[t].prov)) = {}) =>
            LET P == Wrapper(inv'[t].prov)
                E == Enclosing(t, P)
                R == IF E = {} THEN Raw(inv'[t].prov) ELSE ctxStack[t][Innermost(E)][P]
            IN /\ inv'[t].target = R
               /\ (inv'[t].pc = "active" /\ inv'[t].gen) => inv'[t].val.impl = R]_vars

\* Keyword arguments as a mapping: the set of their <<name, value>> pairs.
AsMapping(kw) == {kw[n] : n \in DOMAIN kw}

\* Task i is inside its block with a value it produced for a cached provider,
\* and rec calls the same provider, resolved to the same implementation, with
\* the same keyword arguments written in another order.
Reordered(i, rec) ==
    /\ inv[i].pc = "active" /\ inv[i].gen /\ Cached(inv[i].prov)
    /\ rec.prov = inv[i].prov /\ rec.target = inv[i].target
    /\ AsMapping(rec.kw) = AsMapping(inv[i].kw) /\ rec.kw # inv[i].kw

C13_SecondYieldReported ==
    last.tdOut = "yieldagain" => last.result \notin {"returned", "ConsumerError", "Cancelled"}

\* Task t, which ran setup, completes its scope exit in this step.
OwnerExitDone(t) ==
    /\ inv[t].gen /\ inv[t].pc \in {"active", "teardown"} /\ inv'[t].pc = "idle"

\* C14: when a generator-engine acquisition of a cached provider that ran
\* setup completes its scope exit, its teardown has been resumed and its key
\* is not in the cache, also when the teardown raised; the teardown's failure
\* is then what leaves the block.
C14_EvictEvenIfTeardownRaises ==
    [][\A t \in Tasks :
        (OwnerExitDone(t) /\ Engine(inv[t].prov) = "gen" /\ Cached(inv[t].prov)) =>
            /\ resLog'[inv[t].val.res].td = 1
            /\ inv[t].key \notin DOMAIN cache'["gen"]
            /\ last'.tdOut = "raise" => last'.result = "TeardownError"]_vars

\* C14 witness: the only call made so far stored its entry, no override()
\* cleared it, its teardown raised, and the key is gone.
C14_Witness ==
    /\ calls = 1 /\ lastOv.n = 0
    /\ last.gen /\ Engine(last.prov) = "gen" /\ Cached(last.prov)
    /\ last.tdOut = "raise" /\ last.result = "TeardownError"
    /\ last.key \notin DOMAIN cache["gen"]

\* Task t's call is under way and does not hold a value yet: the wrapper has
\* been called and the setup phase is suspended.
InSetup(t) == inv[t].pc = "setup"

\* C15: a setup phase that raises makes the call raise that failure; the
\* block is not entered, no teardown is resumed, and neither the step that
\* starts the call nor the step in which setup fails changes a cache.
C15_SetupFailurePropagates ==
    [][/\ (SetupFailedStep /\ last'.setupOut = "raise") =>
            /\ last'.result = "SetupError"
            /\ last'.exitKind = "none" /\ last'.res = 0 /\ last'.tdOut = "none"
            /\ \A t \in Tasks : inv'[t].pc = "active" => inv[t].pc = "active"
            /\ cache' = cache /\ resLog' = resLog
       /\ \A t \in Tasks : (~InSetup(t) /\ InSetup(t)') => cache' = cache]_vars

\* C15 witness: a cached provider's setup raised after an earlier
\* acquisition had stored an entry and left its block (`last` is the failed
\* call, so the other one finished before it); that entry is still the only
\* one in the caches.
C15_Witness ==
    /\ last.setupOut = "raise" /\ last.result = "SetupError" /\ Cached(last.prov)
    /\ Len(resLog) = 1 /\ resLog[1].td = 1
    /\ Cardinality(CachedValues) = 1

\* C16: override()'s clear leaves every acquisition in flight as it is; an
\* acquisition that ran setup and whose key is no longer in the cache still
\* completes its scope exit with its teardown resumed once and with no error
\* other than what the block or the teardown raised; and a call of a cached
\* provider that finds its key absent runs setup.
C16_ClearDoesNotBreakInFlight ==
    [][/\ lastOv'.n = lastOv.n + 1 => (inv' = inv /\ resLog' = resLog)
       /\ \A t \in Tasks :
            (OwnerExitDone(t) /\ inv[t].key \notin DOMAIN cache[Engine(inv[t].prov)]) =>
                /\ resLog'[inv[t].val.res].td = 1
                /\ last'.res = inv[t].val.res
                /\ last'.result = BlockResult(last'.exitKind, last'.tdOut)
       /\ \A t \in Tasks :
            (CallStep(t) /\ Cached(inv'[t].prov)
                /\ inv'[t].key \notin DOMAIN cache[Engine(inv'[t].prov)]) =>
                    (inv'[t].pc = "setup" \/ (inv'[t].gen /\ Len(resLog') = Len(resLog) + 1))]_vars

\* C16 witness: the one override() so far cleared a generator-engine entry;
\* the first acquisition has since left its block normally with its teardown
\* complete, and a second acquisition ran setup for the same key and its
\* entry is stored.  (The entry cleared was the first's: the second's was
\* stored after the clear, being still there, and after the first's exit,
\* which would have popped it.)
C16_Witness ==
    /\ lastOv.n = 1 /\ "gen" \in lastOv.cleared
    /\ Len(resLog) = 2
    /\ last.res = 1 /\ last.gen /\ last.tdOut = "complete" /\ last.result = "returned"
    /\ \E t \in Tasks : HeldBy(t, 2) /\ EntryStored(t) /\ inv[t].key = last.key

\* The order in which one acquisition moves through its lifecycle.
LifecycleOrder ==
    { <<"idle", "setup">>, <<"idle", "active">>, <<"setup", "active">>, <<"setup", "idle">>,
      <<"active", "teardown">>, <<"active", "idle">>, <<"teardown", "idle">> }

\* C17: an acquisition moves call, (setup), active, (teardown), done and
\* never back.  The key it checks is built from the implementation it
\* resolved to, and it is a hit exactly if that key is in the cache; a value
\* of a cached provider is in the cache under that key in the state in which
\* the caller first holds it; and the step that resumes a suspended teardown
\* leaves the cache alone, so the key is popped only afterwards, with the
\* teardown already resumed.
C17_LifecycleOrder ==
    [][\A t \in Tasks :
        /\ inv'[t].pc # inv[t].pc => <<inv[t].pc, inv'[t].pc>> \in LifecycleOrder
        /\ CallStep(t) =>
              /\ inv'[t].target = Resolve(t, inv'[t].prov)
              /\ inv'[t].key[1] = inv'[t].target
              /\ (inv'[t].pc = "active" /\ ~inv'[t].gen) <=> CacheHit(cache, inv'[t].prov, inv'[t].key)
        /\ (inv[t].pc # "active" /\ inv'[t].pc = "active" /\ inv'[t].gen /\ Cached(inv'[t].prov)) =>
              /\ inv'[t].key \in DOMAIN cache'[Engine(inv'[t].prov)]
              /\ cache'[Engine(inv'[t].prov)][inv'[t].key] = inv'[t].val
        /\ (inv[t].pc = "active" /\ inv'[t].pc = "teardown") =>
              (cache' = cache /\ resLog'[inv[t].val.res].td = 1)
        /\ (OwnerExitDone(t) /\ cache' # cache) =>
              (resLog'[inv[t].val.res].td = 1 /\ inv[t].key \notin DOMAIN cache'["gen"])]_vars

\* C17 witness: an acquisition resolved through a context block to a
\* replacement has left its block; its teardown has been resumed and is
\* suspended, and the entry it stored under the replacement's key is still
\* in the cache.
C17_Witness ==
    \E t \in Tasks :
        /\ inv[t].pc = "teardown" /\ inv[t].target # Raw(inv[t].prov)
        /\ EntryStored(t) /\ resLog[inv[t].val.res].td = 1

\* C18: nothing serialises the calls of a cached asynchronous provider per
\* key.  A call that finds the key absent starts its own setup even if
\* another call for that key is suspended in setup, and a setup that ends
\* stores its value under the key whatever is stored there.
C18_NoPerKeyExclusion ==
    [][\A t \in Tasks :
        /\ (CallStep(t) /\ Cached(inv'[t].prov) /\ IsAsync(inv'[t].prov)
                /\ inv'[t].key \notin DOMAIN cache[Engine(inv'[t].prov)])
              => (inv'[t].pc = "setup" /\ inv' = [inv EXCEPT ![t] = inv'[t]])
        /\ (inv[t].pc = "setup" /\ inv'[t].pc = "active" /\ Cached(inv[t].prov))
              => /\ cache'[Engine(inv[t].prov)][inv[t].key] = inv'[t].val
                 /\ inv'[t].val.res = Len(resLog')
                 /\ \A u \in Tasks : u # t => inv'[u] = inv[u]]_vars

\* C18 witness: two acquisitions of one key both ran setup and are inside
\* their blocks with different values; the cache holds the later value, the
\* earlier one's entry having been overwritten.
C18_Witness ==
    \E t, u \in Tasks :
        /\ HeldBy(t, 1) /\ HeldBy(u, 2)
        /\ inv[t].key = inv[u].key /\ inv[t].prov = inv[u].prov
        /\ IsAsync(inv[t].prov) /\ Cached(inv[t].prov)
        /\ EntryStored(u) /\ ~EntryStored(t)
        /\ lastOv.n = 0

\* C19: no acquisition of a generator-engine provider is inside its block
\* holding a value whose teardown has been resumed.  (The handle engine
\* breaks the same statement; the generator engine is the one that evicts.)
C19_NoActiveHolderOfTornDownValue ==
    \A t \in Tasks :
        (inv[t].pc = "active" /\ Engine(inv[t].prov) = "gen") => resLog[inv[t].val.res].td = 0

\* C20: when an acquisition completes its scope exit, every entry that
\* another acquisition stored and whose acquisition is still inside its block
\* is still in the cache.
C20_EvictsOnlyOwnEntry ==
    [][\A t, u \in Tasks :
        (OwnerExitDone(t) /\ u # t /\ inv[u].pc = "active" /\ inv[u].gen /\ EntryStored(u))
            => /\ inv[u].key \in DOMAIN cache'[Engine(inv[u].prov)]
               /\ cache'[Engine(inv[u].prov)][inv[u].key] = inv[u].val]_vars

====
